---- MODULE Spec2Model ----
(***************************************************************************)
(* ContributorsCount._initialize (pydriller/metrics/process/               *)
(* contributors_count.py): one pass over the modified files of the         *)
(* traversed commits that accumulates, per file path and per author, the   *)
(* lines authored, followed by one pass over the accumulated table that    *)
(* derives the contributors count, the minor contributors count and the    *)
(* bus factor of every file whose total is not zero.                       *)
(*                                                                         *)
(* Python dictionaries are modelled as association lists: sequences of     *)
(* <<key, value>> pairs in insertion order, with at most one pair per key. *)
(* Python's None is the string "None", which is no file name of the model. *)
(* An author's e-mail is a sequence of one-character strings.              *)
(***************************************************************************)
EXTENDS Integers, Sequences, FiniteSets

VARIABLES
    commits,            \* the modified-file records traverse_commits() delivers, in order
    i,                  \* how many of them the first loop has processed
    renamed_files,      \* dict: old path -> path its contributions are stored under
    contributors,       \* self.contributors: path -> (author -> lines), later path -> count
    minor_contributors, \* self.minor_contributors: path -> count
    bus_factor,         \* self.bus_factor: path -> count
    items,              \* list(self.contributors.items()), taken when the second loop starts
    j,                  \* how many of them the second loop has processed
    pc                  \* "traverse", "finalize", "done" or "raised"

vars == <<commits, i, renamed_files, contributors, minor_contributors,
          bus_factor, items, j, pc>>

None == "None"

------------------------------------------------------------------------------
(* dict operations *)

Keys(d) == {d[n][1] : n \in 1..Len(d)}

Has(d, k) == k \in Keys(d)

\* d.get(k, default)
Get(d, k, default) ==
    IF Has(d, k) THEN d[CHOOSE n \in 1..Len(d) : d[n][1] = k][2] ELSE default

\* d[k] = v: an existing key keeps its place, a new key goes last
Put(d, k, v) ==
    IF Has(d, k)
    THEN [n \in 1..Len(d) |-> IF d[n][1] = k THEN <<k, v>> ELSE d[n]]
    ELSE Append(d, <<k, v>>)

\* del d[k]
Del(d, k) == SelectSeq(d, LAMBDA e : e[1] # k)

\* list(d.values())
Values(d) == [n \in 1..Len(d) |-> d[n][2]]

------------------------------------------------------------------------------
(* str.strip(), sum(), sorted(reverse=True), itertools.accumulate *)

Whitespace == {" ", "\t", "\n"}

RECURSIVE lstrip(_)
lstrip(s) == IF s # <<>> /\ Head(s) \in Whitespace THEN lstrip(Tail(s)) ELSE s

RECURSIVE rstrip(_)
rstrip(s) ==
    IF s # <<>> /\ s[Len(s)] \in Whitespace
    THEN rstrip(SubSeq(s, 1, Len(s) - 1))
    ELSE s

strip(s) == rstrip(lstrip(s))

RECURSIVE sum(_)
sum(s) == IF s = <<>> THEN 0 ELSE Head(s) + sum(Tail(s))

\* v put into the descending sequence s, after the elements equal to it
RECURSIVE InsertDescending(_, _)
InsertDescending(v, s) ==
    IF s = <<>> THEN <<v>>
    ELSE IF Head(s) >= v THEN <<Head(s)>> \o InsertDescending(v, Tail(s))
    ELSE <<v>> \o s

RECURSIVE SortedReverse(_)
SortedReverse(s) ==
    IF s = <<>> THEN <<>>
    ELSE InsertDescending(s[Len(s)], SortedReverse(SubSeq(s, 1, Len(s) - 1)))

accumulate(s) == [n \in 1..Len(s) |-> sum(SubSeq(s, 1, n))]

------------------------------------------------------------------------------
(* the first loop: one modified file of one commit *)

\* variant: the alias table is not consulted
ResolveNoAlias(renamed, new_path) == new_path

\* renamed_files.get(modified_file.new_path, modified_file.new_path)

Resolve(renamed, new_path) == Get(renamed, new_path, new_path)

\* variant: the alias is the record's new_path, not the resolved filepath
RecordRenameToNewPath(renamed, modified_file, filepath) ==
    IF modified_file.change_type = "RENAME"
    THEN Put(renamed, modified_file.old_path, modified_file.new_path)
    ELSE renamed

\* variant: the alias is recorded from filepath to old_path
RecordRenameSwapped(renamed, modified_file, filepath) ==
    IF modified_file.change_type = "RENAME"
    THEN Put(renamed, filepath, modified_file.old_path)
    ELSE renamed

\* if change_type == RENAME: renamed_files[old_path] = filepath
RecordRename(renamed, modified_file, filepath) ==
    IF modified_file.change_type = "RENAME"
    THEN Put(renamed, modified_file.old_path, filepath)
    ELSE renamed

\* commit.author.email.strip()
Author(modified_file) == strip(modified_file.email)

\* modified_file.added_lines + modified_file.deleted_lines
LinesAuthored(modified_file) ==
    modified_file.added_lines + modified_file.deleted_lines

\* variant: the cell is overwritten, not added to
AttributeOverwriting(table, filepath, author, lines_authored) ==
    LET contributions == Get(table, filepath, <<>>)
    IN  Put(table, filepath, Put(contributions, author, lines_authored))

\* self.contributors[filepath] = self.contributors.get(filepath, {})
\* self.contributors[filepath][author] =
\*     self.contributors[filepath].get(author, 0) + lines_authored
Attribute(table, filepath, author, lines_authored) ==
    LET contributions == Get(table, filepath, <<>>)
    IN  Put(table, filepath,
            Put(contributions, author,
                Get(contributions, author, 0) + lines_authored))

ProcessFile ==
    /\ pc = "traverse"
    /\ i < Len(commits)
    /\ LET modified_file == commits[i + 1]
           filepath == Resolve(renamed_files, modified_file.new_path)
       IN  /\ renamed_files' = RecordRename(renamed_files, modified_file, filepath)
           /\ contributors' = Attribute(contributors, filepath,
                                        Author(modified_file),
                                        LinesAuthored(modified_file))
    /\ i' = i + 1
    /\ UNCHANGED <<commits, minor_contributors, bus_factor, items, j, pc>>

\* the traversal is exhausted: list(self.contributors.items())
EndTraversal ==
    /\ pc = "traverse"
    /\ i = Len(commits)
    /\ items' = contributors
    /\ pc' = "finalize"
    /\ UNCHANGED <<commits, i, renamed_files, contributors,
                   minor_contributors, bus_factor, j>>

------------------------------------------------------------------------------
(* the second loop: one file of the accumulated table *)

\* .05, in hundredths
MinorPercent == 5

\* variant: the test is for a file without contributions
ExcludedIfEmpty(contributions) == contributions = <<>>

\* variant: total <= 0
ExcludedIfNotPositive(contributions) == sum(Values(contributions)) <= 0

\* total = sum(contributions.values()); if total == 0
Excluded(contributions) == sum(Values(contributions)) = 0

\* variant: v/total <= .05
IsMinorInclusive(v, total) ==
    IF total > 0 THEN 100 * v <= MinorPercent * total
    ELSE 100 * v >= MinorPercent * total

\* v/total < .05: the quotient of the two integers against 5/100. The float
\* quotient of integers below 2^53 / 100 is on the same side of the float
\* .05 as the exact quotient is of 5/100, and v/total = 5/100 exactly gives
\* the float .05 itself. total is not 0 here; dividing by a negative total
\* turns the comparison round.
IsMinor(v, total) ==
    IF total > 0 THEN 100 * v < MinorPercent * total
    ELSE 100 * v > MinorPercent * total

\* variant: v <= total / 2
BelowHalfInclusive(v, total) == 2 * v <= total

\* v < total / 2

BelowHalf(v, total) == 2 * v < total

\* list(accumulate(sorted(contributions.values(), reverse=True)))
Cumulative(contributions) == accumulate(SortedReverse(Values(contributions)))

\* len(contributions.values())
ContributorsCount(contributions) == Len(Values(contributions))

\* sum(1 for v in contributions.values() if v/total < .05)
MinorContributorsCount(contributions, total) ==
    LET values == Values(contributions)
    IN  Cardinality({n \in 1..Len(values) : IsMinor(values[n], total)})

\* variant: without the += 1
BusFactorCountNoIncrement(contributions, total) ==
    LET cumulative == Cumulative(contributions)
    IN  Cardinality({n \in 1..Len(cumulative) : BelowHalf(cumulative[n], total)})

\* sum(1 for v in cumulative if v < total / 2), then += 1
BusFactorCount(contributions, total) ==
    LET cumulative == Cumulative(contributions)
    IN  Cardinality({n \in 1..Len(cumulative) : BelowHalf(cumulative[n], total)}) + 1

\* total == 0: del self.contributors[path]
DropFile ==
    /\ pc = "finalize"
    /\ j < Len(items)
    /\ Excluded(items[j + 1][2])
    /\ contributors' = Del(contributors, items[j + 1][1])
    /\ j' = j + 1
    /\ UNCHANGED <<commits, i, renamed_files, minor_contributors, bus_factor,
                   items, pc>>

\* else: the three metrics of the file; the divisions by total raise
\* ZeroDivisionError when total is 0
MeasureFile ==
    /\ pc = "finalize"
    /\ j < Len(items)
    /\ ~Excluded(items[j + 1][2])
    /\ LET path == items[j + 1][1]
           contributions == items[j + 1][2]
           total == sum(Values(contributions))
       IN  IF total = 0
           THEN /\ pc' = "raised"
                /\ UNCHANGED <<contributors, minor_contributors, bus_factor, j>>
           ELSE /\ contributors' =
                       Put(contributors, path, ContributorsCount(contributions))
                /\ minor_contributors' =
                       Put(minor_contributors, path,
                           MinorContributorsCount(contributions, total))
                /\ bus_factor' =
                       Put(bus_factor, path, BusFactorCount(contributions, total))
                /\ j' = j + 1
                /\ pc' = pc
    /\ UNCHANGED <<commits, i, renamed_files, items>>

\* the second loop is exhausted: _initialize returns
Return ==
    /\ pc = "finalize"
    /\ j = Len(items)
    /\ pc' = "done"
    /\ UNCHANGED <<commits, i, renamed_files, contributors,
                   minor_contributors, bus_factor, items, j>>

Next == ProcessFile \/ EndTraversal \/ DropFile \/ MeasureFile \/ Return

------------------------------------------------------------------------------
(* the inputs *)

ModifiedFile(old_path, new_path, change_type, email, added_lines, deleted_lines) ==
    [old_path |-> old_path, new_path |-> new_path, change_type |-> change_type,
     email |-> email, added_lines |-> added_lines, deleted_lines |-> deleted_lines]

X == <<"x">>
Y == <<"y">>
Z == <<"z">>
XPadded == <<" ", "x", "\t">>

Start ==
    /\ i = 0
    /\ renamed_files = <<>>
    /\ contributors = <<>>
    /\ minor_contributors = <<>>
    /\ bus_factor = <<>>
    /\ items = <<>>
    /\ j = 0
    /\ pc = "traverse"

(* Spec: every stream of at most MaxCommits records, well-formed or not *)

MaxCommits == 2

Paths == {"a.py", "b.py"}

\* (old_path, new_path, change_type) as the miner reports them, and the
\* malformed RENAMEs with an absent path
Shapes ==
    {<<p, p, "MODIFY">> : p \in Paths}
    \cup {<<"a.py", None, "DELETE">>, <<None, "b.py", "ADD">>}
    \cup {<<"a.py", "b.py", "RENAME">>, <<"b.py", "a.py", "RENAME">>}
    \cup {<<None, "a.py", "RENAME">>, <<"b.py", None, "RENAME">>}

\* (added_lines, deleted_lines); a negative count is malformed
LineCounts == {<<0, 0>>, <<1, 2>>, <<-3, 0>>}

Records ==
    {ModifiedFile(s[1], s[2], s[3], e, l[1], l[2]) :
        s \in Shapes, e \in {X, XPadded, Y}, l \in LineCounts}

Streams == UNION {[1..n -> Records] : n \in 0..MaxCommits}

Init == commits \in Streams /\ Start

Spec == Init /\ [][Next]_vars

(* the streams of shares: one file, one record per author; every author     *)
(* contributes the same number of lines but for one of them                 *)

MaxAuthors == 21
MaxShare == 2

\* the e-mail of the k-th author
AuthorEmail(k) == [n \in 1..k |-> "u"]

ShareRecord(k, lines) ==
    ModifiedFile("a.py", "a.py", "MODIFY", AuthorEmail(k),
                 lines - (lines \div 2), lines \div 2)

\* n authors, each with v lines but the odd-th, who has w
ShareStream(n, odd, v, w) ==
    [k \in 1..n |-> ShareRecord(k, IF k = odd THEN w ELSE v)]

(* SpecChain: the history of one file renamed up to MaxChain times, with a  *)
(* contribution under each of its names, delivered oldest commit first or   *)
(* newest commit first                                                      *)

MaxChain == 2

ChainNames == <<"a.py", "b.py", "c.py", "d.py", "e.py">>

\* the contribution made while the file had its (k+1)-th name
Touch(k, email, lines) ==
    IF k = 0
    THEN ModifiedFile(None, ChainNames[1], "ADD", email, lines, 0)
    ELSE ModifiedFile(ChainNames[k + 1], ChainNames[k + 1], "MODIFY", email, lines, 0)

\* the k-th rename, with no line changes
Rename(k, email) ==
    ModifiedFile(ChainNames[k], ChainNames[k + 1], "RENAME", email, 0, 0)

Reverse(s) == [k \in 1..Len(s) |-> s[Len(s) + 1 - k]]

\* the history of a file renamed n times, oldest commit first: t gives the
\* author and the lines of each contribution, r the author of each rename
History(n, t, r) ==
    [k \in 1..(2 * n + 1) |->
        IF k % 2 = 1
        THEN Touch((k - 1) \div 2, t[(k + 1) \div 2][1], t[(k + 1) \div 2][2])
        ELSE Rename(k \div 2, r[k \div 2])]

InitChain ==
    /\ \E n \in 1..MaxChain :
           \E t \in [1..(n + 1) -> {X, Y} \X {0, 5, 10}], r \in [1..n -> {X, Y, Z}] :
               \/ commits = History(n, t, r)
               \/ commits = Reverse(History(n, t, r))
    /\ Start

SpecChain == InitChain /\ [][Next]_vars

(* SpecWellFormed: the streams of Spec whose line counts are all            *)
(* non-negative, and the streams of shares                                  *)

NonNegative(s) ==
    \A k \in 1..Len(s) : s[k].added_lines >= 0 /\ s[k].deleted_lines >= 0

InitWellFormed ==
    /\ \/ commits \in Streams /\ NonNegative(commits)
       \/ \E n \in 1..MaxAuthors, odd \in 1..MaxAuthors,
             v \in 0..MaxShare, w \in 0..MaxShare :
               commits = ShareStream(n, odd, v, w)
    /\ Start

SpecWellFormed == InitWellFormed /\ [][Next]_vars

------------------------------------------------------------------------------
(* what the properties below read off the state *)

\* the lines recorded for (path, author), 0 when there is no such cell
Cell(table, path, author) == Get(Get(table, path, <<>>), author, 0)

AuthorsOf(table, path) == Keys(Get(table, path, <<>>))

\* a dict as a function of its keys
AsMap(d) == [k \in Keys(d) |-> Get(d, k, 0)]

\* the accumulated table: self.contributors until the second loop starts,
\* the list taken from it afterwards
Table == IF pc = "traverse" THEN contributors ELSE items

OutputKeys == Keys(contributors) \cup Keys(minor_contributors) \cup Keys(bus_factor)

\* an e-mail without its whitespace characters
Trimmed(email) == SelectSeq(email, LAMBDA c : c \notin Whitespace)

ChainLength == (Len(commits) - 1) \div 2
NewestName == ChainNames[ChainLength + 1]
NewestFirst == commits[1].new_path = NewestName
OldestFirst == commits[1].new_path = ChainNames[1]

\* the records of the first i that are RENAMEs
RenamesProcessed == {k \in 1..i : commits[k].change_type = "RENAME"}

\* all the lines the stream records for one author
LinesBy(author) ==
    sum([k \in 1..Len(commits) |->
            IF Trimmed(commits[k].email) = author
            THEN commits[k].added_lines + commits[k].deleted_lines
            ELSE 0])

ExampleAdd == ModifiedFile(None, "a.py", "ADD", X, 10, 0)
ExampleRename(email) == ModifiedFile("a.py", "b.py", "RENAME", email, 0, 0)
ExampleModify == ModifiedFile("b.py", "b.py", "MODIFY", Y, 5, 0)

ExampleOutcome ==
    /\ Keys(items) = {"b.py"}
    /\ AsMap(Get(items, "b.py", <<>>)) = [a \in {X, Y} |-> IF a = X THEN 10 ELSE 5]
    /\ Keys(contributors) = {"b.py"}
    /\ Get(contributors, "b.py", 0) = 2
    /\ Get(bus_factor, "b.py", 0) = 1

------------------------------------------------------------------------------
(* C1 *)

\* C1 as stated: after ADD a.py by X with 10 lines, RENAME a.py -> b.py and
\* MODIFY b.py by Y with 5 lines, processed in that order, the table has the
\* single key b.py holding {X: 10, Y: 5}, with contributor count 2 and bus
\* factor 1.
C1_RenameExampleAsDelivered ==
    (pc = "done" /\ \E e \in {X, Y, Z} :
        commits = <<ExampleAdd, ExampleRename(e), ExampleModify>>)
    => ExampleOutcome

\* C1, amended: the single key b.py with {X: 10, Y: 5}, contributor count 2
\* and bus factor 1 is the outcome when the three records are processed
\* newest first (MODIFY, RENAME, ADD) and the RENAME is committed by X or Y;
\* processed ADD, RENAME, MODIFY, a.py keeps {X: 10} and b.py holds Y: 5 and
\* the 0 lines of the RENAME's author.
C1_RenameExampleNewestFirst ==
    pc = "done" =>
        /\ (\E e \in {X, Y} :
               commits = <<ExampleModify, ExampleRename(e), ExampleAdd>>)
           => ExampleOutcome
        /\ \A e \in {X, Y, Z} :
               commits = <<ExampleAdd, ExampleRename(e), ExampleModify>>
               => /\ Keys(items) = {"a.py", "b.py"}
                  /\ AsMap(Get(items, "a.py", <<>>)) = [a \in {X} |-> 10]
                  /\ AuthorsOf(items, "b.py") = {Y, e}
                  /\ Cell(items, "b.py", Y) = 5
                  /\ Cell(items, "b.py", e) = IF e = Y THEN 5 ELSE 0
                  /\ Keys(contributors) = {"a.py", "b.py"}
                  /\ Get(contributors, "a.py", 0) = 1
                  /\ Get(bus_factor, "a.py", 0) = 1

C1_Witness ==
    /\ pc = "done"
    /\ commits = <<ExampleModify, ExampleRename(X), ExampleAdd>>
    /\ Get(contributors, "b.py", 0) = 2
    /\ ~Has(contributors, "a.py")

------------------------------------------------------------------------------
(* C2 *)

\* C2 as stated: contributions under a, RENAME a -> b, contributions under b,
\* RENAME b -> c, contributions under c, processed in chronological order,
\* all end under the single key c; a and b are keys neither of the table nor
\* of an output map.
C2_ChainChronological ==
    (pc = "done" /\ ChainLength = 2 /\ OldestFirst)
    => /\ Keys(items) = {"c.py"}
       /\ \A a \in {X, Y, Z} : Cell(items, "c.py", a) = LinesBy(a)
       /\ OutputKeys \subseteq {"c.py"}

\* C2, amended: when the records of the chain are processed newest commit
\* first, every contribution made along the chain is attributed to the
\* newest name, the single key of the table and the only possible key of the
\* outputs; processed in chronological order, every name of the chain stays
\* a key of the table.
C2_ChainNewestFirst ==
    /\ (i = Len(commits) /\ NewestFirst)
       => /\ Keys(Table) = {NewestName}
          /\ \A a \in {X, Y, Z} : Cell(Table, NewestName, a) = LinesBy(a)
          /\ AuthorsOf(Table, NewestName) =
                 {commits[k].email : k \in 1..Len(commits)}
          /\ pc = "done" => OutputKeys \subseteq {NewestName}
    /\ (i = Len(commits) /\ OldestFirst)
       => Keys(Table) = {ChainNames[k] : k \in 1..(ChainLength + 1)}

C2_Witness ==
    /\ pc = "done"
    /\ ChainLength = 2
    /\ NewestFirst
    /\ Keys(contributors) = {"c.py"}
    /\ \A k \in 1..Len(commits) :
           commits[k].change_type # "RENAME" => commits[k].added_lines > 0

------------------------------------------------------------------------------
(* C10 *)

\* C10 as stated: whatever the order in which the RENAMEs of a chain are
\* processed, no path stored in the alias table as a target is itself a key
\* of the table that maps to another path.
C10_NoAliasToAlias ==
    \A n \in 1..Len(renamed_files) :
        LET target == renamed_files[n][2]
        IN  Get(renamed_files, target, target) = target

\* C10, amended: an alias is resolved by one lookup, made when its RENAME is
\* processed. When the RENAMEs of a chain are processed newest first, every
\* old name processed so far maps to the newest name, no target is a key and
\* every record is attributed to the newest name;
\* when they are processed oldest first, every old name maps to the name
\* that followed it, which later records do not change.
C10_AliasesNewestFirst ==
    /\ Keys(renamed_files) = {commits[k].old_path : k \in RenamesProcessed}
    /\ NewestFirst =>
           /\ \A n \in 1..Len(renamed_files) : renamed_files[n][2] = NewestName
           /\ C10_NoAliasToAlias
           /\ Keys(Table) \subseteq {NewestName}
    /\ OldestFirst =>
           \A k \in RenamesProcessed :
               Get(renamed_files, commits[k].old_path, None) = commits[k].new_path

C10_Witness ==
    /\ ChainLength = 2
    /\ NewestFirst
    /\ i = Len(commits)
    /\ Get(renamed_files, "a.py", None) = "c.py"
    /\ Get(renamed_files, "b.py", None) = "c.py"

------------------------------------------------------------------------------
(* C3 *)

\* the place of values[k] among the values, largest first, equal values in
\* the order of their indices
Rank(values, k) ==
    Cardinality({m \in 1..Len(values) :
        values[m] > values[k] \/ (values[m] = values[k] /\ m <= k)})

\* the sum of the n largest values
TopSum(values, n) ==
    sum([k \in 1..Len(values) |-> IF Rank(values, k) <= n THEN values[k] ELSE 0])

\* the least n such that the n largest values sum to at least half the total
MinimumCore(values) ==
    LET top == [n \in 1..Len(values) |-> TopSum(values, n)]
    IN  CHOOSE n \in 1..Len(values) :
            /\ 2 * top[n] >= sum(values)
            /\ \A m \in 1..(n - 1) : 2 * top[m] < sum(values)

\* C3: for every file with total > 0 and non-negative values, the bus factor
\* is the least n such that the n largest values sum to at least total/2; a
\* prefix sum equal to total/2 is not counted.
C3_BusFactorIsMinimumCore ==
    pc = "done" =>
        \A path \in Keys(bus_factor) :
            LET values == Values(Get(items, path, <<>>))
            IN  (sum(values) > 0 /\ \A k \in 1..Len(values) : values[k] >= 0)
                => Get(bus_factor, path, 0) = MinimumCore(values)

\* four equal values: the second prefix sum is exactly half the total
C3_Witness ==
    /\ pc = "done"
    /\ Len(commits) = 4
    /\ \A k \in 1..4 : commits[k].added_lines + commits[k].deleted_lines = 2
    /\ Get(bus_factor, "a.py", 0) = 2

------------------------------------------------------------------------------
(* C4 *)

\* C4: after the full pass over a stream of records with non-negative line
\* counts, every path of the outputs has contributor count >= 1, bus factor
\* >= 1, bus factor <= contributor count and
\* 0 <= minor contributor count <= contributor count.
C4_MetricsWithinCount ==
    (pc = "done" /\ NonNegative(commits)) =>
        \A path \in OutputKeys :
            /\ Has(contributors, path)
            /\ Has(minor_contributors, path)
            /\ Has(bus_factor, path)
            /\ Get(contributors, path, 0) >= 1
            /\ Get(bus_factor, path, 0) >= 1
            /\ Get(bus_factor, path, 0) <= Get(contributors, path, 0)
            /\ Get(minor_contributors, path, 0) >= 0
            /\ Get(minor_contributors, path, 0) <= Get(contributors, path, 0)

C4_Witness ==
    /\ pc = "done"
    /\ NonNegative(commits)
    /\ Get(contributors, "a.py", 0) = 4
    /\ Get(bus_factor, "a.py", 0) = 2
    /\ Get(minor_contributors, "a.py", 0) = 1

------------------------------------------------------------------------------
(* C5 *)

\* C5: the minor contributor count of a file is the number of authors whose
\* value v has 20 * v < total; N authors with equal shares give 0 for
\* N <= 20 and N for N > 20.
C5_MinorIsStrictlyBelowFivePercent ==
    pc = "done" =>
        \A path \in Keys(minor_contributors) :
            LET values == Values(Get(items, path, <<>>))
                total == sum(values)
                N == Len(values)
            IN  /\ Get(minor_contributors, path, 0) =
                       Cardinality({k \in 1..N : 20 * values[k] < total})
                /\ (\A k \in 1..N : values[k] = values[1])
                   => Get(minor_contributors, path, 0) = IF N <= 20 THEN 0 ELSE N

\* twenty authors with one line each: every one holds exactly 5%
C5_Witness ==
    /\ pc = "done"
    /\ Len(commits) = 20
    /\ \A k \in 1..20 : commits[k].added_lines + commits[k].deleted_lines = 1
    /\ Get(contributors, "a.py", 0) = 20
    /\ Get(minor_contributors, "a.py", 1) = 0

------------------------------------------------------------------------------
(* C6 *)

\* C6: after the full pass, the absent path is a key of none of the three
\* output maps.
C6_AbsentPathNotReported ==
    pc = "done" => None \notin OutputKeys

------------------------------------------------------------------------------
(* C7 *)

\* C7: after the full pass, a path of the table is a key of each of the
\* three output maps if and only if its accumulated values do not sum to 0,
\* the three maps have the same keys, and a stream whose records all have 0
\* added and 0 deleted lines leaves the three maps empty.
C7_ReportedIffNonzeroTotal ==
    pc = "done" =>
        /\ Keys(contributors) = Keys(minor_contributors)
        /\ Keys(contributors) = Keys(bus_factor)
        /\ Keys(contributors) \subseteq Keys(items)
        /\ \A path \in Keys(items) :
               Has(contributors, path)
               <=> sum(Values(Get(items, path, <<>>))) # 0
        /\ (\A k \in 1..Len(commits) :
               commits[k].added_lines = 0 /\ commits[k].deleted_lines = 0)
           => OutputKeys = {}

\* one file reported, with a negative total, and one left out
C7_Witness ==
    /\ pc = "done"
    /\ Keys(items) = {"a.py", "b.py"}
    /\ Keys(bus_factor) = {"b.py"}
    /\ sum(Values(Get(items, "b.py", <<>>))) < 0
    /\ Values(Get(items, "a.py", <<>>)) = <<0>>

------------------------------------------------------------------------------
(* C8 *)

\* C8: no stream, malformed records included, makes the computation raise:
\* the second loop never divides by a total of 0.
C8_NeverRaises == pc # "raised"

\* a RENAME of a path never seen, with an absent old path and negative line
\* counts, then a deletion, whose absent new path the RENAME has aliased to
\* a.py; the total of a.py is not 0 and the file is measured
C8_Witness ==
    /\ pc = "done"
    /\ Len(commits) = 2
    /\ commits[1].change_type = "RENAME"
    /\ commits[1].old_path = None
    /\ commits[1].added_lines < 0
    /\ commits[2].change_type = "DELETE"
    /\ commits[2].new_path = None
    /\ Keys(items) = {"a.py"}
    /\ Keys(bus_factor) = {"a.py"}

------------------------------------------------------------------------------
(* C9 *)

\* C9: processing one record, of any change type, adds added_lines +
\* deleted_lines to the one cell [path new_path resolves to][trimmed author]
\* and changes no other cell; the alias table changes only on a RENAME, and
\* only at the key old_path.
C9_OneCellPerRecord ==
    [][(pc = "traverse" /\ i' = i + 1) =>
        LET modified_file == commits[i + 1]
            key == IF Has(renamed_files, modified_file.new_path)
                   THEN Get(renamed_files, modified_file.new_path, None)
                   ELSE modified_file.new_path
            who == Trimmed(modified_file.email)
        IN  /\ \A path \in Paths \cup {None} : \A author \in {X, Y} :
                   Cell(contributors', path, author) =
                       Cell(contributors, path, author)
                       + (IF path = key /\ author = who
                          THEN modified_file.added_lines + modified_file.deleted_lines
                          ELSE 0)
            /\ Keys(contributors') = Keys(contributors) \cup {key}
            /\ \A path \in Paths \cup {None} :
                   AuthorsOf(contributors', path) =
                       AuthorsOf(contributors, path)
                       \cup (IF path = key THEN {who} ELSE {})
            /\ IF modified_file.change_type = "RENAME"
               THEN /\ Keys(renamed_files') =
                           Keys(renamed_files) \cup {modified_file.old_path}
                    /\ Get(renamed_files', modified_file.old_path, None) = key
                    /\ \A k \in Keys(renamed_files) \ {modified_file.old_path} :
                           Get(renamed_files', k, None) = Get(renamed_files, k, None)
               ELSE renamed_files' = renamed_files
    ]_vars

\* a RENAME a.py -> b.py processed after a contribution under a.py, which
\* stays where it was
C9_Witness ==
    /\ i = 2
    /\ commits[1].new_path = "a.py"
    /\ commits[1].change_type = "MODIFY"
    /\ commits[1].added_lines > 0
    /\ commits[2].change_type = "RENAME"
    /\ commits[2].old_path = "a.py"
    /\ Trimmed(commits[1].email) = Trimmed(commits[2].email)
    /\ Cell(contributors, "a.py", Trimmed(commits[1].email)) = 3
    /\ Has(contributors, "b.py")
    /\ Get(renamed_files, "a.py", None) = "b.py"

====
